---- MODULE Spec2Model ----
(***************************************************************************)
(* Scalable simple random sampling (yelp_sampling).                        *)
(*                                                                         *)
(* scalable_srs.py : scalable_srs and its helpers, a two-pass sampler over *)
(*                   a partitioned collection.                             *)
(* srs_sampling.py : the train/test variant, sample_train_test_split.      *)
(*                                                                         *)
(* Numbers.  Python floats are modelled in fixed point: a real x is the    *)
(* integer x * Scale, truncated.  Random keys, ratios and thresholds are   *)
(* fixed-point values; the key space [0,1) is 0 .. Scale-1.  Whether a     *)
(* Python number is an int or a float is kept beside its value where the   *)
(* code's behaviour depends on it (heapq.nsmallest).                       *)
(*                                                                         *)
(* Random keys.  random.Random(s) is a fixed but arbitrary key sequence    *)
(* per stream s: the table rand, chosen once and read by every generator   *)
(* seeded with s.                                                          *)
(***************************************************************************)
EXTENDS Integers, Sequences, FiniteSets, TLC

\* ------------------------------------------------------------------ bounds

\* Number of records of the sampled collection.
NumRows == 3

\* Number of distinct values a random key takes: k * Scale / KeyLevels.
KeyLevels == 5

\* ---------------------------------------------------------------- numbers

\* Fixed-point unit: the float 1.0.
Scale == 1000

\* An optional value: <<>> is None, <<v>> is v.
None == <<>>

Some(v) == <<v>>

Max(a, b) == IF a >= b THEN a ELSE b

Min(a, b) == IF a <= b THEN a ELSE b

RECURSIVE SqrtSearch(_, _, _)
\* Largest r in lo .. hi with r * r <= x (lo * lo <= x is given).
SqrtSearch(lo, hi, x) ==
    IF lo >= hi THEN lo
    ELSE LET mid == (lo + hi + 1) \div 2
         IN  IF mid * mid <= x THEN SqrtSearch(mid, hi, x)
             ELSE SqrtSearch(lo, mid - 1, x)

\* math.sqrt on a fixed-point square: xx is x * Scale^2, the result is
\* sqrt(x) * Scale, truncated.
Sqrt(xx) == SqrtSearch(0, 46340, xx)

\* -math.log(delta), fixed point, for the error parameters the model uses.
NegLog(delta) ==
    CASE delta = "5e-05" -> 9903
      [] delta = "0.9"   -> 105

RECURSIVE SumSeq(_)
SumSeq(s) == IF s = <<>> THEN 0 ELSE Head(s) + SumSeq(Tail(s))

\* Number of occurrences of v in s.
Count(s, v) == Cardinality({i \in DOMAIN s : s[i] = v})

RECURSIVE SortedFrom(_, _)
\* The elements of s whose value is in vals, in ascending order: the least value,
\* as often as it occurs, then the rest.
SortedFrom(vals, s) ==
    IF vals = {} THEN <<>>
    ELSE LET m == CHOOSE v \in vals : \A w \in vals : v <= w
         IN  [i \in 1 .. Count(s, m) |-> m] \o SortedFrom(vals \ {m}, s)

\* sorted(s)
Sorted(s) == SortedFrom({s[i] : i \in DOMAIN s}, s)

nsmallest_mut(n, s) == SubSeq(s, 1, Min(n, Len(s)))

\* heapq.nsmallest(n, iterable) for an int n: sorted(iterable)[:n].
nsmallest(n, s) == SubSeq(Sorted(s), 1, Min(n, Len(s)))

\* ------------------------------------------------------ the collection

PartitionIds == {0, 1}

\* Records are 1 .. NumRows; partition 0 holds the first half (rounded up).
Rdd ==
    LET h == (NumRows + 1) \div 2
    IN  [idx \in PartitionIds |->
            IF idx = 0 THEN [i \in 1 .. h |-> i]
            ELSE [i \in 1 .. (NumRows - h) |-> h + i]]

\* rdd.count()
RddCount == SumSeq([i \in 1 .. 2 |-> Len(Rdd[i - 1])])

KeyGrid == {(k * Scale) \div KeyLevels : k \in 0 .. (KeyLevels - 1)}

\* ----------------------------------------------- scalable_srs: helpers

\* A dict that is iterated is a sequence of entries in insertion order.
Names(d) == {d[i].name : i \in DOMAIN d}

Entry(d, name) == d[CHOOSE i \in DOMAIN d : d[i].name = name]

\* int(v * count if v < 1.0 else v)
AbsoluteSize(v, cnt) == IF v < Scale THEN ((v * cnt) \div Scale) ELSE v \div Scale

set_up_set_sizes_mut(sizes, cnt, reproportion) ==
    [raised |-> FALSE,
     sizes  |-> [i \in DOMAIN sizes |->
                   [name |-> sizes[i].name,
                    size |-> AbsoluteSize(sizes[i].size, cnt) * Scale,
                    float |-> FALSE]]]

\* _set_up_set_sizes.  A size is kept as a fixed-point value with its Python
\* type: the comprehension on line 48 makes ints, the one on line 52 floats.
set_up_set_sizes(sizes, cnt, reproportion) ==
    LET ints == [i \in DOMAIN sizes |-> AbsoluteSize(sizes[i].size, cnt)]
        sampled_size == SumSeq(ints)
    IN  IF sampled_size > cnt
        THEN IF reproportion
             THEN [raised |-> FALSE,
                   sizes  |-> [i \in DOMAIN sizes |->
                                 [name |-> sizes[i].name,
                                  size |-> (ints[i] * cnt * Scale) \div sampled_size,
                                  float |-> TRUE]]]
             ELSE [raised |-> TRUE, sizes |-> <<>>]
        ELSE [raised |-> FALSE,
              sizes  |-> [i \in DOMAIN sizes |->
                            [name |-> sizes[i].name,
                             size |-> ints[i] * Scale,
                             float |-> FALSE]]]

\* _compute_thresholds: <<q_low, q_high>>.
compute_thresholds(ratio, population_size, delta) ==
    LET gamma1 == NegLog(delta) \div population_size
        gamma2 == (2 * NegLog(delta)) \div (3 * population_size)
        q_low  == Max(0, ratio + gamma2 - Sqrt(gamma2 * gamma2 + 3 * gamma2 * ratio))
        q_high == Min(Scale, ratio + gamma1 + Sqrt(gamma1 * gamma1 + 2 * gamma1 * ratio))
    IN  <<q_low, q_high>>

RECURSIVE initial_thresholds_mut_from(_, _, _, _)
initial_thresholds_mut_from(sizes, cnt, delta, offset) ==
    IF sizes = <<>> THEN <<>>
    ELSE LET q == compute_thresholds(Head(sizes).size \div cnt, cnt, delta)
         IN  <<[name |-> Head(sizes).name, low |-> offset,
                accept |-> offset + q[1], waitlist |-> offset + q[2]]>>
             \o initial_thresholds_mut_from(Tail(sizes), cnt, delta, offset + q[1])

RECURSIVE initial_thresholds_from(_, _, _, _)
initial_thresholds_from(sizes, cnt, delta, offset) ==
    IF sizes = <<>> THEN <<>>
    ELSE LET q == compute_thresholds(Head(sizes).size \div cnt, cnt, delta)
         IN  <<[name |-> Head(sizes).name, low |-> offset,
                accept |-> offset + q[1], waitlist |-> offset + q[2]]>>
             \o initial_thresholds_from(Tail(sizes), cnt, delta, offset + q[2])

\* _get_initial_thresholds
get_initial_thresholds(sizes, cnt, delta) == initial_thresholds_from(sizes, cnt, delta, 0)

\* The (required+1)-th smallest waitlisted key; raised: nsmallest was handed a
\* float (size is a float after reproportioning) and raises TypeError.
final_threshold_mut(size, tally, t) ==
    LET required == size.size - tally[1] * Scale
        waitlist_count == Len(tally[2])
    IN  IF required <= 0
        THEN [name |-> t.name, low |-> t.low, high |-> t.accept, raised |-> FALSE]
        ELSE IF required >= waitlist_count * Scale
        THEN [name |-> t.name, low |-> t.low, high |-> t.waitlist, raised |-> FALSE]
        ELSE IF size.float
        THEN [name |-> t.name, low |-> t.low, high |-> t.low, raised |-> TRUE]
        ELSE LET smallest == nsmallest(required \div Scale, tally[2])
             IN  [name |-> t.name, low |-> t.low, high |-> smallest[Len(smallest)],
                  raised |-> FALSE]

\* One iteration of _get_final_thresholds' loop: the set's final interval.
final_threshold(size, tally, t) ==
    LET required == size.size - tally[1] * Scale
        waitlist_count == Len(tally[2])
    IN  IF required <= 0
        THEN [name |-> t.name, low |-> t.low, high |-> t.accept, raised |-> FALSE]
        ELSE IF required >= waitlist_count * Scale
        THEN [name |-> t.name, low |-> t.low, high |-> t.waitlist, raised |-> FALSE]
        ELSE IF size.float
        THEN [name |-> t.name, low |-> t.low, high |-> t.low, raised |-> TRUE]
        ELSE LET smallest == nsmallest((required \div Scale) + 1, tally[2])
             IN  [name |-> t.name, low |-> t.low, high |-> smallest[Len(smallest)],
                  raised |-> FALSE]

\* _get_final_thresholds: the dict of final intervals; raised: TypeError.
get_final_thresholds(cnts, sizes, thr) ==
    LET each == [i \in DOMAIN sizes |->
                    final_threshold(sizes[i], cnts[sizes[i].name], Entry(thr, sizes[i].name))]
    IN  IF \E i \in DOMAIN each : each[i].raised
        THEN [raised |-> TRUE, thresholds |-> <<>>]
        ELSE [raised |-> FALSE,
              thresholds |-> [i \in DOMAIN each |->
                  [name |-> each[i].name, low |-> each[i].low, high |-> each[i].high]]]

\* The keys random.Random(stream) hands to the first n calls of random().
RandomKeys(table, stream, n) == SubSeq(table[stream], 1, n)

\* The keys of ks in [lo, hi), in order.
SelectKeys(ks, lo, hi) == SelectSeq(ks, LAMBDA k : k >= lo /\ k < hi)

\* _threshold_accumulator's seeding: random.Random(seed + idx).
accumulator_stream(sd, idx) == sd + idx

\* _threshold_accumulator: values[name] = [count, waitlisted keys].
threshold_accumulator(idx, rows, thr, sd, table) ==
    LET ks == RandomKeys(table, accumulator_stream(sd, idx), Len(rows))
    IN  [name \in Names(thr) |->
            LET t == Entry(thr, name)
            IN  <<Len(SelectKeys(ks, t.low, t.accept)),
                  SelectKeys(ks, Max(t.low, t.accept), t.waitlist)>>]

\* a[name][i] += v for the two elements of a value: int addition, list extension.
AddValue(x, y) == <<x[1] + y[1], x[2] \o y[2]>>

dict_addition_reducer_mut(a, b) ==
    [name \in DOMAIN a |->
        IF name \notin DOMAIN b THEN a[name] ELSE AddValue(a[name], b[name])]

\* _dict_addition_reducer: the dict a holds after the call (and is returned).
dict_addition_reducer(a, b) ==
    [name \in (DOMAIN a) \cup (DOMAIN b) |->
        IF name \notin DOMAIN a THEN b[name]
        ELSE IF name \notin DOMAIN b THEN a[name]
        ELSE AddValue(a[name], b[name])]

mapper_stream_mut(sd, idx) == sd

\* _threshold_mapper's seeding: random.Random(seed + idx).
mapper_stream(sd, idx) == sd + idx

RECURSIVE FirstMatch(_, _)
\* The loop over thresholds.items() for one key: the first set whose interval
\* holds the key, as a one-element sequence, or <<>>.
FirstMatch(key, thr) ==
    IF thr = <<>> THEN <<>>
    ELSE IF key < Head(thr).low THEN FirstMatch(key, Tail(thr))
    ELSE IF key < Head(thr).high THEN <<Head(thr).name>>
    ELSE FirstMatch(key, Tail(thr))

RECURSIVE MapRows(_, _, _)
MapRows(rows, ks, thr) ==
    IF rows = <<>> THEN <<>>
    ELSE LET m == FirstMatch(Head(ks), thr)
         IN  (IF m = <<>> THEN <<>> ELSE << <<m[1], Head(rows)>> >>)
             \o MapRows(Tail(rows), Tail(ks), thr)

\* _threshold_mapper: the (set_name, row) pairs of one partition.
threshold_mapper(idx, rows, thr, sd, table) ==
    MapRows(rows, RandomKeys(table, mapper_stream(sd, idx), Len(rows)), thr)

\* seed = int(seed or time.time())
effective_seed(seed_arg, clock) ==
    IF seed_arg = None THEN clock
    ELSE IF seed_arg[1] = 0 THEN clock
    ELSE seed_arg[1]

\* ------------------------------------------------ scalable_srs: the run

VARIABLES
    args,              \* scalable_srs' arguments: set_sizes, delta, seed, reproportion
    now,               \* time.time() at the call
    rand,              \* stream -> the keys random.Random(stream) yields
    pc,                \* where scalable_srs is
    count,             \* line 30
    seed,              \* line 31
    set_sizes,         \* line 32
    thresholds,        \* line 34
    values,            \* idx -> the tally _threshold_accumulator yielded, if it ran
    counts,            \* line 38
    final_thresholds,  \* line 40
    out,               \* idx -> the pairs _threshold_mapper yielded, if it ran
    pass1_keys,        \* idx -> the keys rng.random() returned in _threshold_accumulator
    pass2_keys,        \* idx -> the keys rng.random() returned in _threshold_mapper
    \* _dict_addition_reducer on its own (SpecMerge)
    tally,             \* object -> the dict it holds now
    cell,              \* object -> set name -> the value list [count, waitlist] it holds
    given,             \* object -> the dict it held before any call
    calls,             \* the calls made: [a, b, a_before, b_before, result]
    \* sample_train_test_split (SpecSplit): see below
    split

srsVars == <<args, now, rand, pc, count, seed, set_sizes, thresholds, values, counts,
             final_thresholds, out, pass1_keys, pass2_keys>>

mergeVars == <<tally, cell, given, calls>>

vars == <<srsVars, mergeVars, split>>

\* The variables of a specification that does not use them.
SrsIdle ==
    /\ args = <<>> /\ now = 0 /\ rand = <<>> /\ pc = "idle" /\ count = 0 /\ seed = 0
    /\ set_sizes = <<>> /\ thresholds = <<>> /\ values = <<>> /\ counts = <<>>
    /\ final_thresholds = <<>> /\ out = <<>> /\ pass1_keys = <<>> /\ pass2_keys = <<>>

MergeIdle == tally = <<>> /\ cell = <<>> /\ given = <<>> /\ calls = <<>>

SplitIdle == split = <<>>

\* The set_sizes arguments: ratios (below 1.0) and absolute sizes, fixed point.
SizeArgs ==
    { << [name |-> "a", size |-> 1 * Scale] >>,
      << [name |-> "a", size |-> 2 * Scale] >>,
      << [name |-> "a", size |-> Scale \div 2] >>,
      << [name |-> "a", size |-> 1 * Scale], [name |-> "b", size |-> 1 * Scale] >>,
      << [name |-> "a", size |-> 2 * Scale], [name |-> "b", size |-> 1 * Scale] >>,
      << [name |-> "a", size |-> 2 * Scale], [name |-> "b", size |-> 2 * Scale] >> }

Deltas == {"5e-05", "0.9"}

SeedArgs == {None, Some(0), Some(1)}

Clock == {2}

Streams(sd) == {sd + idx : idx \in PartitionIds}

NoneYet == [idx \in PartitionIds |-> None]

Init ==
    /\ args \in [set_sizes : SizeArgs, delta : Deltas, seed : SeedArgs,
                  reproportion : BOOLEAN]
    /\ now \in Clock
    /\ \E sd \in {effective_seed(args.seed, now)} :
          rand \in { t \in [Streams(sd) -> UNION {[1 .. n -> KeyGrid] : n \in 0 .. NumRows}] :
                       \A idx \in PartitionIds : Len(t[sd + idx]) = Len(Rdd[idx]) }
    /\ pc = "start"
    /\ count = 0
    /\ seed = 0
    /\ set_sizes = <<>>
    /\ thresholds = <<>>
    /\ values = NoneYet
    /\ counts = None
    /\ final_thresholds = <<>>
    /\ out = NoneYet
    /\ pass1_keys = NoneYet
    /\ pass2_keys = NoneYet
    /\ MergeIdle
    /\ SplitIdle

\* scalable_srs, lines 30-34: count, seed, the set sizes (or ValueError) and the
\* initial thresholds.
Start ==
    /\ pc = "start"
    /\ count' = RddCount
    /\ seed' = effective_seed(args.seed, now)
    /\ LET r == set_up_set_sizes(args.set_sizes, RddCount, args.reproportion)
       IN  IF r.raised
           THEN /\ pc' = "ValueError"
                /\ UNCHANGED <<set_sizes, thresholds>>
           ELSE /\ pc' = "pass1"
                /\ set_sizes' = r.sizes
                /\ thresholds' = get_initial_thresholds(r.sizes, RddCount, args.delta)
    /\ UNCHANGED <<args, now, rand, values, counts, final_thresholds, out,
                   pass1_keys, pass2_keys>>
    /\ UNCHANGED <<mergeVars, split>>

\* One execution of _threshold_accumulator on partition idx (the first, or a
\* re-execution by the engine).
ThresholdAccumulator(idx) ==
    /\ pc = "pass1"
    /\ values' = [values EXCEPT ![idx] =
                     Some(threshold_accumulator(idx, Rdd[idx], thresholds, seed, rand))]
    /\ pass1_keys' = [pass1_keys EXCEPT ![idx] =
                     Some(RandomKeys(rand, accumulator_stream(seed, idx), Len(Rdd[idx])))]
    /\ UNCHANGED <<args, now, rand, pc, count, seed, set_sizes, thresholds, counts,
                   final_thresholds, out, pass2_keys>>
    /\ UNCHANGED <<mergeVars, split>>

\* The orders in which reduce may combine the partitions' tallies.
ReduceOrders == {o \in [1 .. 2 -> PartitionIds] : o[1] # o[2]}

\* .reduce(_dict_addition_reducer), lines 35-38, once every partition has a tally.
Reduce ==
    /\ pc = "pass1"
    /\ \A idx \in PartitionIds : values[idx] # None
    /\ \E o \in ReduceOrders :
          counts' = Some(dict_addition_reducer(values[o[1]][1], values[o[2]][1]))
    /\ pc' = "reduced"
    /\ UNCHANGED <<args, now, rand, count, seed, set_sizes, thresholds, values,
                   final_thresholds, out, pass1_keys, pass2_keys>>
    /\ UNCHANGED <<mergeVars, split>>

\* Line 40: _get_final_thresholds, or the TypeError it raises.
FinalThresholds ==
    /\ pc = "reduced"
    /\ LET r == get_final_thresholds(counts[1], set_sizes, thresholds)
       IN  IF r.raised
           THEN /\ pc' = "TypeError"
                /\ UNCHANGED final_thresholds
           ELSE /\ pc' = "pass2"
                /\ final_thresholds' = r.thresholds
    /\ UNCHANGED <<args, now, rand, count, seed, set_sizes, thresholds, values, counts,
                   out, pass1_keys, pass2_keys>>
    /\ UNCHANGED <<mergeVars, split>>

\* One execution of _threshold_mapper on partition idx (the first, or a
\* re-execution).
ThresholdMapper(idx) ==
    /\ pc = "pass2"
    /\ out' = [out EXCEPT ![idx] =
                  Some(threshold_mapper(idx, Rdd[idx], final_thresholds, seed, rand))]
    /\ pass2_keys' = [pass2_keys EXCEPT ![idx] =
                  Some(RandomKeys(rand, mapper_stream(seed, idx), Len(Rdd[idx])))]
    /\ UNCHANGED <<args, now, rand, pc, count, seed, set_sizes, thresholds, values,
                   counts, final_thresholds, pass1_keys>>
    /\ UNCHANGED <<mergeVars, split>>

\* The returned collection is complete: every partition has been mapped.
Collect ==
    /\ pc = "pass2"
    /\ \A idx \in PartitionIds : out[idx] # None
    /\ pc' = "done"
    /\ UNCHANGED <<args, now, rand, count, seed, set_sizes, thresholds, values, counts,
                   final_thresholds, out, pass1_keys, pass2_keys>>
    /\ UNCHANGED <<mergeVars, split>>

Next ==
    \/ Start
    \/ \E idx \in PartitionIds : ThresholdAccumulator(idx)
    \/ Reduce
    \/ FinalThresholds
    \/ \E idx \in PartitionIds : ThresholdMapper(idx)
    \/ Collect

Spec == Init /\ [][Next]_vars

\* ---------------------------------------------- scalable_srs: properties

\* The sum of the absolute target sizes asked for.
SampledSize ==
    SumSeq([i \in DOMAIN args.set_sizes |-> AbsoluteSize(args.set_sizes[i].size, RddCount)])

Oversubscribed == SampledSize > RddCount

\* The keys the records received in pass 1, partition after partition.
KeysDrawn == pass1_keys[0][1] \o pass1_keys[1][1]

NoCollision ==
    \A i, j \in DOMAIN KeysDrawn : i # j => KeysDrawn[i] # KeysDrawn[j]

Emitted == out[0][1] \o out[1][1]

\* Number of records emitted under a set name.
EmittedFor(name) == Cardinality({i \in DOMAIN Emitted : Emitted[i][1] = name})

Accepted(name) == counts[1][name][1]

Waitlist(name) == counts[1][name][2]

\* required = size - count of _get_final_thresholds (line 97), in fixed point:
\* a whole number of records for an int size, a fraction for a float size.
Required(i) == set_sizes[i].size - Accepted(set_sizes[i].name) * Scale

\* Required(i) in records, when it is a whole number of them.
RequiredRows(i) == Required(i) \div Scale

\* The branch of lines 105-109 is taken for set i: 0 < required < len(waitlist).
MidWaitlist(i) ==
    /\ 0 < Required(i)
    /\ Required(i) < Len(Waitlist(set_sizes[i].name)) * Scale

Below(wl, v) == Cardinality({j \in DOMAIN wl : wl[j] < v})

AtMost(wl, v) == Cardinality({j \in DOMAIN wl : wl[j] <= v})

\* v is the k-th smallest element of wl.
IsKthSmallest(v, k, wl) ==
    /\ \E j \in DOMAIN wl : wl[j] = v
    /\ Below(wl, v) < k
    /\ k <= AtMost(wl, v)

Distinct(wl) == \A i, j \in DOMAIN wl : i # j => wl[i] # wl[j]

\* Every pass-1 interval lies within the key space.
WithinKeySpace == \A i \in DOMAIN thresholds : thresholds[i].waitlist <= Scale

\* C1 as claimed: with sizes summing to at most the population and no two records
\* sharing a key, every set is emitted with exactly its target size.  (Stated for
\* the runs whose intervals fit in the key space, so that a violation is not the
\* overflow of C5.)
C1_ExactSizeAlways ==
    (pc = "done" /\ ~Oversubscribed /\ NoCollision /\ WithinKeySpace) =>
        \A i \in DOMAIN set_sizes :
            EmittedFor(set_sizes[i].name) * Scale = set_sizes[i].size

\* C1 amended: under the same conditions a set is emitted with exactly its target
\* size when pass 1 accepted at most the target and accepted plus waitlisted at
\* least the target; a set that pass 1 over-accepted is emitted with its accepted
\* count, and a set whose waitlist is too short with accepted plus waitlisted.
C1_ExactSizeWhenBracketed ==
    (pc = "done" /\ ~Oversubscribed /\ NoCollision) =>
        \A i \in DOMAIN set_sizes :
            LET name == set_sizes[i].name
                size == set_sizes[i].size \div Scale
                acc  == Accepted(name)
                wl   == Len(Waitlist(name))
            IN  /\ (acc <= size /\ size <= acc + wl) => EmittedFor(name) = size
                /\ acc > size => EmittedFor(name) = acc
                /\ acc + wl < size => EmittedFor(name) = acc + wl

C1_Witness ==
    /\ pc = "done" /\ ~Oversubscribed /\ NoCollision
    /\ \E i \in DOMAIN set_sizes :
          /\ MidWaitlist(i)
          /\ Accepted(set_sizes[i].name) > 0
          /\ EmittedFor(set_sizes[i].name) * Scale = set_sizes[i].size

Disjoint(lo1, hi1, lo2, hi2) == hi1 <= lo2 \/ hi2 <= lo1

\* C2: with several sets, the pass-1 intervals [low, waitlist) never overlap, the
\* final intervals [low, high) never overlap, no partition tally counts or
\* waitlists a key for two sets, and no record is emitted twice.
C2_Disjoint ==
    /\ \A i, j \in DOMAIN thresholds : i # j =>
          Disjoint(thresholds[i].low, thresholds[i].waitlist,
                   thresholds[j].low, thresholds[j].waitlist)
    /\ \A i, j \in DOMAIN final_thresholds : i # j =>
          Disjoint(final_thresholds[i].low, final_thresholds[i].high,
                   final_thresholds[j].low, final_thresholds[j].high)
    /\ \A idx \in PartitionIds : values[idx] # None =>
          SumSeq([i \in DOMAIN thresholds |->
                    values[idx][1][thresholds[i].name][1]
                    + Len(values[idx][1][thresholds[i].name][2])]) <= Len(Rdd[idx])
    /\ \A idx \in PartitionIds : out[idx] # None =>
          \A i, j \in DOMAIN out[idx][1] : i # j => out[idx][1][i][2] # out[idx][1][j][2]

C2_Witness ==
    /\ pc = "done"
    /\ Len(set_sizes) = 2
    /\ \A i \in DOMAIN set_sizes :
          /\ EmittedFor(set_sizes[i].name) > 0
          /\ Waitlist(set_sizes[i].name) # <<>>

\* The assignments the arguments, the clock and the key streams determine: the
\* pipeline run in partition order.
DeterminedOut ==
    LET sd   == effective_seed(args.seed, now)
        szs  == set_up_set_sizes(args.set_sizes, RddCount, args.reproportion).sizes
        thr  == get_initial_thresholds(szs, RddCount, args.delta)
        tal  == [idx \in PartitionIds |-> threshold_accumulator(idx, Rdd[idx], thr, sd, rand)]
        cnts == dict_addition_reducer(tal[0], tal[1])
        fin  == get_final_thresholds(cnts, szs, thr).thresholds
    IN  [idx \in PartitionIds |-> Some(threshold_mapper(idx, Rdd[idx], fin, sd, rand))]

\* C3: the keys a partition draws in pass 2 are the keys it drew in pass 1, and a
\* completed run's assignments are those its inputs determine, whatever the order
\* of the partitions, of the reduce, and however often a call was re-executed.
C3_Deterministic ==
    /\ \A idx \in PartitionIds :
          (pass1_keys[idx] # None /\ pass2_keys[idx] # None) =>
              pass1_keys[idx] = pass2_keys[idx]
    /\ pc = "done" => out = DeterminedOut

C3_Witness ==
    /\ pc = "done"
    /\ counts[1] # dict_addition_reducer(values[0][1], values[1][1])
    /\ \E i \in DOMAIN set_sizes : MidWaitlist(i)
    /\ pass1_keys[0] # pass1_keys[1]
    /\ Emitted # <<>>

\* C4: an oversubscribed call without reproportion ends in ValueError with no
\* threshold, tally or output produced.
C4_InvalidConfiguration ==
    (Oversubscribed /\ ~args.reproportion /\ pc # "start") =>
        /\ pc = "ValueError"
        /\ set_sizes = <<>> /\ thresholds = <<>> /\ final_thresholds = <<>>
        /\ values = NoneYet /\ counts = None /\ out = NoneYet

C4_Witness == pc = "ValueError" /\ Oversubscribed /\ ~args.reproportion

\* C5 as claimed: several sets never get thresholds beyond the key space; the
\* call fails instead (no such failure exists: pc is never "CapacityExceeded").
C5_CapacityChecked ==
    (Len(thresholds) >= 2 /\ thresholds[Len(thresholds)].waitlist > Scale) =>
        pc = "CapacityExceeded"

\* C6 as claimed: an oversubscribed call with reproportion runs to completion
\* without error, on integer sizes that sum to at most the population.
C6_ReproportionSucceeds ==
    (Oversubscribed /\ args.reproportion) =>
        /\ pc # "TypeError"
        /\ pc = "done" =>
              /\ \A i \in DOMAIN set_sizes :
                    ~set_sizes[i].float /\ set_sizes[i].size % Scale = 0
              /\ SumSeq([i \in DOMAIN set_sizes |-> set_sizes[i].size]) <= RddCount * Scale

\* C7 as claimed: a seed the caller supplies is the seed used.
C7_SuppliedSeedUsed ==
    (pc # "start" /\ args.seed # None) => seed = args.seed[1]

\* C8 as claimed: a mid-waitlist cutoff is the (required+1)-th smallest
\* waitlisted key and exactly required waitlisted keys are below it.
C8_OrderStatistic ==
    pc \in {"pass2", "done"} =>
        \A i \in DOMAIN set_sizes : MidWaitlist(i) =>
            LET wl == Waitlist(set_sizes[i].name)
                cutoff == Entry(final_thresholds, set_sizes[i].name).high
            IN  /\ IsKthSmallest(cutoff, RequiredRows(i) + 1, wl)
                /\ Below(wl, cutoff) * Scale = Required(i)

\* C8 amended: a mid-waitlist cutoff, selected for an int required, is the
\* (required+1)-th smallest waitlisted key; at most required waitlisted keys are
\* below it, and exactly required when the waitlisted keys are pairwise distinct.
\* For a float required (a reproportioned size) no cutoff is selected: the
\* mid-waitlist branch raises TypeError, and nothing else does.
C8_OrderStatisticDistinct ==
    /\ pc \in {"pass2", "done"} =>
          \A i \in DOMAIN set_sizes : MidWaitlist(i) =>
              LET wl == Waitlist(set_sizes[i].name)
                  cutoff == Entry(final_thresholds, set_sizes[i].name).high
              IN  /\ ~set_sizes[i].float
                  /\ Required(i) % Scale = 0
                  /\ IsKthSmallest(cutoff, RequiredRows(i) + 1, wl)
                  /\ Below(wl, cutoff) <= RequiredRows(i)
                  /\ Distinct(wl) => Below(wl, cutoff) = RequiredRows(i)
    /\ pc \in {"pass2", "done", "TypeError"} =>
          (pc = "TypeError" <=>
              \E i \in DOMAIN set_sizes : MidWaitlist(i) /\ set_sizes[i].float)

C8_Witness ==
    /\ pc = "pass2"
    /\ \E i \in DOMAIN set_sizes :
          LET wl == Waitlist(set_sizes[i].name)
          IN  /\ MidWaitlist(i)
              /\ Len(wl) = 3 /\ Distinct(wl) /\ wl # Sorted(wl)
              /\ ~set_sizes[i].float
              /\ RequiredRows(i) = 2
              /\ Below(wl, Entry(final_thresholds, set_sizes[i].name).high) = 2

\* ------------------------------------- _dict_addition_reducer on its own

\* Largest accepted count of a tally handed to the reducer.
MaxAccepted == 1

Objects == {"A", "B", "C"}

SetNames == {"a", "b"}

\* The waitlisted key of a tally of object o (different objects, different keys).
KeyOf(o) == CASE o = "A" -> 100 [] o = "B" -> 200 [] o = "C" -> 300

\* The tallies object o may hold: any subset of the set names, each with an
\* accepted count and an empty or one-key waitlist.
TalliesOf(o) ==
    UNION { [ns -> (0 .. MaxAccepted) \X {<<>>, <<KeyOf(o)>>}] : ns \in SUBSET SetNames }

InitMerge ==
    /\ given \in { g \in [Objects -> UNION {TalliesOf(o) : o \in Objects}] :
                      \A o \in Objects : g[o] \in TalliesOf(o) }
    /\ tally = given
    /\ cell = [o \in Objects |-> [name \in DOMAIN given[o] |-> <<o, name>>]]
    /\ calls = <<>>
    /\ SrsIdle
    /\ SplitIdle

\* The objects already handed to a call as b: reduce does not use them again.
Consumed == {calls[i].b : i \in DOMAIN calls}

\* One call _dict_addition_reducer(a, b) of a reduce over the three tallies.
\* The dict a is updated in place and returned.  For a set name that b has and
\* a lacks, a takes b's own value list (line 137, no copy): from then on the two
\* dicts hold the same list.  Adding into a value list of a (lines 139-140)
\* changes it in every dict that holds it.
Merge(a, b) ==
    /\ a # b
    /\ a \notin Consumed /\ b \notin Consumed
    /\ LET result == dict_addition_reducer(tally[a], tally[b])
           held == [name \in DOMAIN result |->
                      IF name \in DOMAIN cell[a] THEN cell[a][name] ELSE cell[b][name]]
       IN  /\ cell' = [cell EXCEPT ![a] = held]
           /\ tally' = [o \in Objects |->
                          IF o = a THEN result
                          ELSE [name \in DOMAIN tally[o] |->
                                  IF name \in DOMAIN cell[a] /\ cell[o][name] = cell[a][name]
                                  THEN result[name]
                                  ELSE tally[o][name]]]
           /\ calls' = Append(calls, [a |-> a, b |-> b, a_before |-> tally[a],
                                       b_before |-> tally[b], result |-> result])
    /\ UNCHANGED <<given, srsVars, split>>

NextMerge == \E a, b \in Objects : Merge(a, b)

SpecMerge == InitMerge /\ [][NextMerge]_vars

\* A tally with every waitlist sorted: equality up to the order of the keys.
UpToOrder(d) == [name \in DOMAIN d |-> <<d[name][1], Sorted(d[name][2])>>]

\* d sums the accepted counts and concatenates the waitlists of x and y for every
\* set name of either.
SumsAndConcatenates(d, x, y) ==
    /\ DOMAIN d = (DOMAIN x) \cup (DOMAIN y)
    /\ \A name \in DOMAIN d :
          /\ name \in DOMAIN x /\ name \in DOMAIN y =>
                /\ d[name][1] = x[name][1] + y[name][1]
                /\ d[name][2] = x[name][2] \o y[name][2]
          /\ name \notin DOMAIN y => d[name] = x[name]
          /\ name \notin DOMAIN x => d[name] = y[name]

\* (x + y) + z was computed, in place in x.
LeftGrouped ==
    /\ Len(calls) = 2
    /\ calls[1].a = calls[2].a

\* y + z was computed first, then x + (y + z).
RightGrouped ==
    /\ Len(calls) = 2
    /\ calls[1].a = calls[2].b

\* After the calls made, a value list the first argument took from the second
\* (a set name the first lacked) is the one list both hold, so the second
\* argument reads what was later added to it; every other value of the second
\* argument is as it was before the call.
TakenListsShared ==
    \A i \in DOMAIN calls : \A name \in DOMAIN calls[i].b_before :
        /\ DOMAIN tally[calls[i].b] = DOMAIN calls[i].b_before
        /\ tally[calls[i].b][name] =
              IF name \in DOMAIN calls[i].a_before
              THEN calls[i].b_before[name]
              ELSE tally[calls[i].a][name]

\* C9 as claimed: the merge is commutative and associative, sums and
\* concatenates, and modifies neither argument.
C9_PureMerge ==
    /\ \A i \in DOMAIN calls :
          /\ calls[i].result = dict_addition_reducer(calls[i].b_before, calls[i].a_before)
          /\ SumsAndConcatenates(calls[i].result, calls[i].a_before, calls[i].b_before)
    /\ LeftGrouped =>
          tally[calls[2].a] =
              dict_addition_reducer(given[calls[1].a],
                  dict_addition_reducer(given[calls[1].b], given[calls[2].b]))
    /\ Len(calls) = 1 =>
          /\ tally[calls[1].a] = calls[1].a_before
          /\ tally[calls[1].b] = calls[1].b_before

\* C9 amended: the merge is associative, and commutative up to the order of the
\* waitlisted keys; the result sums the accepted counts and concatenates the
\* waitlists (first argument's keys first) for every set name of either
\* argument; the call updates its first argument in place to the result and
\* does not change the second, but a value list taken from the second for a
\* set name the first lacked is shared, and a later merge into the first
\* argument changes it in the earlier second argument too.
C9_InPlaceMerge ==
    /\ \A i \in DOMAIN calls :
          /\ UpToOrder(calls[i].result)
                = UpToOrder(dict_addition_reducer(calls[i].b_before, calls[i].a_before))
          /\ SumsAndConcatenates(calls[i].result, calls[i].a_before, calls[i].b_before)
    /\ LeftGrouped =>
          tally[calls[2].a] =
              dict_addition_reducer(given[calls[1].a],
                  dict_addition_reducer(given[calls[1].b], given[calls[2].b]))
    /\ RightGrouped =>
          tally[calls[2].a] =
              dict_addition_reducer(
                  dict_addition_reducer(given[calls[2].a], given[calls[1].a]),
                  given[calls[1].b])
    /\ Len(calls) = 2 =>
          UpToOrder(tally[calls[2].a])
              = UpToOrder(dict_addition_reducer(
                    dict_addition_reducer(given["A"], given["B"]), given["C"]))
    /\ calls # <<>> =>
          /\ tally[calls[Len(calls)].a] = calls[Len(calls)].result
          /\ tally[calls[Len(calls)].b] = calls[Len(calls)].b_before
    /\ TakenListsShared

\* (A + B) + C in place in A: A lacked the set name a and took B's list, C's
\* count and key were then added to it, and B holds the sum as well.
C9_Witness ==
    /\ LeftGrouped
    /\ calls[1].a = "A" /\ calls[1].b = "B" /\ calls[2].b = "C"
    /\ given["A"] = <<>>
    /\ \A o \in {"B", "C"} : DOMAIN given[o] = {"a"} /\ given[o]["a"] = <<1, <<KeyOf(o)>> >>
    /\ tally["B"] = tally["A"] /\ tally["B"] # given["B"]
    /\ tally["A"] # dict_addition_reducer(given["C"], given["B"])

\* ------------------------------------------------ sample_train_test_split

\* Records of partition 0, each with a key of its own choice; the keys are
\* enumerated in non-decreasing order (the waitlists still come out unordered,
\* through the order and the repetition of the partitions' executions).
FreeRows == 3

\* Records of partition 1, which all draw the same key.
BulkRows == 38

\* Most executions of select_train_test_ad_events on one partition.
MaxRuns == 2

\* float('-inf'): below every key.
NegInf == -1

SplitSizes == [r \in PartitionIds |-> IF r = 0 THEN FreeRows ELSE BulkRows]

\* input_logs.count()
SplitCount == FreeRows + BulkRows

\* A record is its partition and its place in it.
Events(idx) == [i \in 1 .. SplitSizes[idx] |-> <<idx, i>>]

\* compute_selection_waitlist_thresholds: <<q1, q2>>.
compute_selection_waitlist_thresholds(approx_pop_size, sample_size) ==
    LET t1 == (20 * Scale) \div (3 * approx_pop_size)
        t2 == (10 * Scale) \div approx_pop_size
        sampling_prob == (sample_size * Scale) \div approx_pop_size
        q2 == Max(0, sampling_prob + t1 - Sqrt(t1 * t1 + 3 * t1 * sampling_prob))
        q1 == Min(Scale, sampling_prob + t2 + Sqrt(t2 * t2 + 2 * t2 * sampling_prob))
    IN  <<q1, q2>>

compute_acceptance_rejection_thresholds_mut(num_waitlist_accepted, waitlist, q1, q2) ==
    IF num_waitlist_accepted > Len(waitlist)
    THEN [raised |-> FALSE, acceptance |-> q1, rejection |-> q1]
    ELSE IF num_waitlist_accepted > 0
    THEN LET sorted_waitlist == nsmallest(num_waitlist_accepted + 1, waitlist)
         IN  IF Len(sorted_waitlist) < 2
             THEN [raised |-> TRUE, acceptance |-> 0, rejection |-> 0]
             ELSE [raised |-> FALSE,
                   acceptance |-> sorted_waitlist[Len(sorted_waitlist)],
                   rejection |-> q2]
    ELSE [raised |-> FALSE, acceptance |-> q2, rejection |-> q2]

\* compute_acceptance_rejection_thresholds: the pair returned; raised: the
\* IndexError of sorted_waitlist[-2] on a one-element list.
compute_acceptance_rejection_thresholds(num_waitlist_accepted, waitlist, q1, q2) ==
    IF num_waitlist_accepted > Len(waitlist)
    THEN [raised |-> FALSE, acceptance |-> q1, rejection |-> q1]
    ELSE IF num_waitlist_accepted > 0
    THEN LET sorted_waitlist == nsmallest(num_waitlist_accepted + 1, waitlist)
         IN  IF Len(sorted_waitlist) < 2
             THEN [raised |-> TRUE, acceptance |-> 0, rejection |-> 0]
             ELSE [raised |-> FALSE,
                   acceptance |-> sorted_waitlist[Len(sorted_waitlist)],
                   rejection |-> sorted_waitlist[Len(sorted_waitlist) - 1]]
    ELSE [raised |-> FALSE, acceptance |-> q2, rejection |-> q2]

\* select_train_test_ad_events on the keys of one partition: what it adds to the
\* three accumulators and the keys it yields.
select_train_test_ad_events(ks, train_q1, train_q2, test_q1, test_q2) ==
    [train_accepted |-> Len(SelectKeys(ks, 0, train_q2)),
     train_waitlist |-> SelectKeys(ks, train_q2, train_q1),
     test_accepted  |-> Len(SelectKeys(ks, 0, test_q2)),
     yielded        |-> SelectKeys(ks, test_q2, test_q1)]

\* The rows whose key (the key at the row's place) passes the test.
FilterRows(rows, ks, lower, upper) ==
    LET kept == SelectSeq([i \in DOMAIN rows |-> i],
                          LAMBDA i : ks[i] < upper /\ ks[i] > lower)
    IN  [j \in DOMAIN kept |-> rows[kept[j]]]

\* filter_ad_events: the records of a partition whose key lies strictly between
\* the thresholds.
filter_ad_events(idx, ad_events, lower_theshold, upper_theshold, ks) ==
    FilterRows(ad_events, ks, lower_theshold, upper_theshold)

FreeKeys ==
    {ks \in [1 .. FreeRows -> KeyGrid] : \A i \in 1 .. FreeRows - 1 : ks[i] <= ks[i + 1]}

SplitArgs == [train_size : {1, 2, 8}, test_size : {1, SplitCount}]

\* The key the records of partition 1 draw: the least or the greatest key.
BulkKeys == {0, ((KeyLevels - 1) * Scale) \div KeyLevels}

InitSplit ==
    /\ \E a \in SplitArgs, free \in FreeKeys, bulk \in BulkKeys :
          split = [args |-> a,
                   keys |-> [idx \in PartitionIds |->
                               IF idx = 0 THEN free ELSE [i \in 1 .. BulkRows |-> bulk]],
                   pc |-> "start",
                   train_size |-> 0, test_size |-> 0,
                   train_q1 |-> 0, train_q2 |-> 0, test_q1 |-> 0, test_q2 |-> 0,
                   train_accepted_items |-> 0, test_accepted_items |-> 0,
                   train_waitlist |-> <<>>,
                   runs |-> [idx \in PartitionIds |-> 0],
                   yielded |-> NoneYet,
                   test_waitlist |-> <<>>,
                   train_upper_threshold |-> 0, test_lower_threshold |-> 0,
                   test_upper_threshold |-> 0,
                   train_out |-> NoneYet, test_out |-> NoneYet]
    /\ SrsIdle
    /\ MergeIdle

\* Lines 101-126: the count, the sizes (rescaled when they exceed the count) and
\* the selection and waitlist thresholds of both sets.
SplitStart ==
    /\ split.pc = "start"
    /\ LET sample_size == split.args.train_size + split.args.test_size
           over == sample_size > SplitCount
           train == IF over THEN (split.args.train_size * SplitCount) \div sample_size
                    ELSE split.args.train_size
           test  == IF over THEN (split.args.test_size * SplitCount) \div sample_size
                    ELSE split.args.test_size
           tr == compute_selection_waitlist_thresholds(SplitCount, train)
           te == compute_selection_waitlist_thresholds(SplitCount, train + test)
       IN  split' = [split EXCEPT !.pc = "select",
                                  !.train_size = train, !.test_size = test,
                                  !.train_q1 = tr[1], !.train_q2 = tr[2],
                                  !.test_q1 = te[1], !.test_q2 = te[2]]
    /\ UNCHANGED <<srsVars, mergeVars>>

\* One execution of select_train_test_ad_events on partition idx: every
\* execution adds to the accumulators; the keys yielded are those of the last.
Select(idx) ==
    /\ split.pc = "select"
    /\ split.runs[idx] < MaxRuns
    /\ LET r == select_train_test_ad_events(split.keys[idx], split.train_q1,
                     split.train_q2, split.test_q1, split.test_q2)
       IN  split' = [split EXCEPT
                !.runs[idx] = @ + 1,
                !.train_accepted_items = @ + r.train_accepted,
                !.test_accepted_items = @ + r.test_accepted,
                !.train_waitlist = @ \o r.train_waitlist,
                !.yielded[idx] = Some(r.yielded)]
    /\ UNCHANGED <<srsVars, mergeVars>>

\* .collect(), line 141, and the thresholds of lines 145-152.
SplitThresholds ==
    /\ split.pc = "select"
    /\ \A idx \in PartitionIds : split.yielded[idx] # None
    /\ LET test_waitlist == split.yielded[0][1] \o split.yielded[1][1]
           tr == compute_acceptance_rejection_thresholds(
                     split.train_size - split.train_accepted_items,
                     split.train_waitlist, split.train_q1, split.train_q2)
           te == compute_acceptance_rejection_thresholds(
                     (split.train_size + split.test_size) - split.test_accepted_items,
                     test_waitlist, split.test_q1, split.test_q2)
       IN  IF tr.raised \/ te.raised
           THEN split' = [split EXCEPT !.pc = "IndexError",
                                       !.test_waitlist = test_waitlist]
           ELSE split' = [split EXCEPT !.pc = "train",
                                       !.test_waitlist = test_waitlist,
                                       !.train_upper_threshold = tr.acceptance,
                                       !.test_lower_threshold = tr.rejection,
                                       !.test_upper_threshold = te.acceptance]
    /\ UNCHANGED <<srsVars, mergeVars>>

\* filter_ad_events on partition idx for the train output, lines 154-162.
FilterTrain(idx) ==
    /\ split.pc = "train"
    /\ split' = [split EXCEPT !.train_out[idx] =
                    Some(filter_ad_events(idx, Events(idx), NegInf,
                                          split.train_upper_threshold, split.keys[idx]))]
    /\ UNCHANGED <<srsVars, mergeVars>>

\* The train output is saved; the test job starts.
TrainSaved ==
    /\ split.pc = "train"
    /\ \A idx \in PartitionIds : split.train_out[idx] # None
    /\ split' = [split EXCEPT !.pc = "test"]
    /\ UNCHANGED <<srsVars, mergeVars>>

\* filter_ad_events on partition idx for the test output, lines 164-172.
FilterTest(idx) ==
    /\ split.pc = "test"
    /\ split' = [split EXCEPT !.test_out[idx] =
                    Some(filter_ad_events(idx, Events(idx), split.test_lower_threshold,
                                          split.test_upper_threshold, split.keys[idx]))]
    /\ UNCHANGED <<srsVars, mergeVars>>

\* The test output is saved.
TestSaved ==
    /\ split.pc = "test"
    /\ \A idx \in PartitionIds : split.test_out[idx] # None
    /\ split' = [split EXCEPT !.pc = "done"]
    /\ UNCHANGED <<srsVars, mergeVars>>

NextSplit ==
    \/ SplitStart
    \/ \E idx \in PartitionIds : Select(idx)
    \/ SplitThresholds
    \/ \E idx \in PartitionIds : FilterTrain(idx)
    \/ TrainSaved
    \/ \E idx \in PartitionIds : FilterTest(idx)
    \/ TestSaved

SpecSplit == InitSplit /\ [][NextSplit]_vars

RowsOf(o) == {o[i] : i \in DOMAIN o}

\* The records written to an output so far.
Written(o) == UNION {IF o[idx] = None THEN {} ELSE RowsOf(o[idx][1]) : idx \in PartitionIds}

\* The branch compute_acceptance_rejection_thresholds took for the train waitlist.
TrainCase ==
    LET num == split.train_size - split.train_accepted_items
    IN  IF num > Len(split.train_waitlist) THEN "short"
        ELSE IF num > 0 THEN "mid"
        ELSE "pre-accepted"

\* C10: whichever branch produced the train thresholds, no record is written to
\* both the train and the test output, and no record's key passes both filters'
\* tests.
C10_TrainTestDisjoint ==
    split.pc \in {"train", "test", "done"} =>
        /\ Written(split.train_out) \cap Written(split.test_out) = {}
        /\ \A idx \in PartitionIds : \A i \in DOMAIN split.keys[idx] :
              ~ /\ split.keys[idx][i] < split.train_upper_threshold
                /\ split.keys[idx][i] > split.test_lower_threshold
                /\ split.keys[idx][i] < split.test_upper_threshold

C10_Witness ==
    /\ split.pc = "done"
    /\ TrainCase = "mid"
    /\ split.test_lower_threshold < split.train_upper_threshold
    /\ Cardinality(Written(split.train_out)) = split.train_size
    /\ Written(split.test_out) # {}
    /\ \E idx \in PartitionIds : split.runs[idx] > 1

\* The other two branches are reached as well.
C10_ShortCase == split.pc = "done" /\ TrainCase = "short" /\ Written(split.test_out) # {}

C10_PreAcceptedCase ==
    /\ split.pc = "done" /\ TrainCase = "pre-accepted"
    /\ split.train_accepted_items > split.train_size
    /\ Written(split.train_out) # {}

====
